---- MODULE Spec2Model ----
(***************************************************************************)
(* A model of the ledger application (src/app.py) and its demo seeding     *)
(* script (src/seed.py): users, accounts and entries held by the database, *)
(* the handlers that change them, and the reporting views computed from    *)
(* them on every read.                                                     *)
(*                                                                         *)
(* Numbers.  Python floats are modelled in fixed point: amounts and fees   *)
(* are integers in units of 0.01, rates are integers in units of 0.1, and  *)
(* every value in CNY (net_cny, initial_balance, sums) is an integer in    *)
(* units of 0.001, so amount * rate is exact.  round(x, 2) and "{:.2f}"    *)
(* round such a value to a multiple of 10.  Binary floating-point error    *)
(* is not modelled.                                                        *)
(*                                                                         *)
(* Dates are day numbers, day 1 being 2025-01-01; the calendar has         *)
(* 365-day years (2025, 2026 and 2027 are not leap years).                 *)
(*                                                                         *)
(* Strings: "Income" is the direction written 收入 in the source,          *)
(* "Expense" is 支出, "Other" is the category 其他, "Uncategorized" is     *)
(* 未分类 and "Default" is the account name 默认账户.                      *)
(***************************************************************************)
EXTENDS Integers, Sequences, FiniteSets, TLC

VARIABLES today, users, accounts, entries, nextEntryId, seedRuns, calc

vars == <<today, users, accounts, entries, nextEntryId, seedRuns, calc>>

(***************************************************************************)
(* Bounds of the model.                                                    *)
(***************************************************************************)
\* dashboard submissions that store an entry, over a whole behaviour
MaxSubmits == 2
\* rows of the accounts table
MaxAccounts == 3
\* runs of the seed script
MaxSeedRuns == 1
\* days that pass during a behaviour
MaxDaysPassed == 1

(***************************************************************************)
(* Program constants.                                                      *)
(***************************************************************************)
\* the rate 1.0 in units of 0.1
RateOne == 10
\* the length of the daily series
SeriesLen == 30
\* the initial balance 1000.0 of the seeded default account, in units of 0.001
SeedInitialBalance == 1000000
\* the rows of one page of the entry list
PerPage == 20

DemoUser == "demo@example.com"
OtherUser == "v@example.com"
Emails == {DemoUser, OtherUser}

\* account_id absent from the form, or not made of digits
NoId == -1
\* Entry.account_id NULL
NoAccount == 0

(***************************************************************************)
(* The calendar.                                                           *)
(***************************************************************************)
MonthLen == <<31, 28, 31, 30, 31, 30, 31, 31, 30, 31, 30, 31>>

YearOf(d) == 2025 + ((d - 1) \div 365)

DayOfYear(d) == ((d - 1) % 365) + 1

\* the days of the year before each month
DaysBefore == <<0, 31, 59, 90, 120, 151, 181, 212, 243, 273, 304, 334>>

\* the month each day of the year lies in
MonthOfDay == [n \in 1..365 |-> CHOOSE m \in 1..12 :
                                    DaysBefore[m] < n /\ n <= DaysBefore[m] + MonthLen[m]]

MonthOf(d) == MonthOfDay[DayOfYear(d)]

DayOfMonth(d) == DayOfYear(d) - DaysBefore[MonthOf(d)]

\* date.replace(day=1)
FirstOfMonth(d) == d - DayOfMonth(d) + 1

\* month and day of each day of the year
MonthDayOfDay == [n \in 1..365 |-> <<MonthOfDay[n], n - DaysBefore[MonthOfDay[n]]>>]

\* strftime("%m-%d")
DayLabel(d) == MonthDayOfDay[DayOfYear(d)]

\* strftime("%Y-%m") of the date column: the label a month is grouped under
MonthLabel(d) == <<YearOf(d), MonthOf(d)>>

\* the order of two "YYYY-MM" labels as strings
LabelLess(a, b) == a[1] < b[1] \/ (a[1] = b[1] /\ a[2] < b[2])

(***************************************************************************)
(* Numbers.                                                                *)
(***************************************************************************)
Abs(x) == IF x < 0 THEN -x ELSE x

\* Python's  x or d  on a number: d when x is zero
OrElse(x, d) == IF x = 0 THEN d ELSE x

\* round(x, 2) of a value in units of 0.001: the nearest multiple of 10, a
\* value exactly halfway going to the even hundredth
Round2(x) ==
    LET q == x \div 10
        r == x % 10
    IN  IF r < 5 THEN q * 10
        ELSE IF r > 5 THEN (q + 1) * 10
        ELSE IF q % 2 = 0 THEN q * 10 ELSE (q + 1) * 10

\* compute_net_cny negating the whole income formula for an expense, so that
\* the fee is added back
compute_net_cny_NegatedIncome(direction, amount, fee, rate_to_cny) ==
    LET amount_cny == OrElse(amount, 0) * OrElse(rate_to_cny, RateOne)
        fee_cny    == OrElse(fee, 0) * OrElse(rate_to_cny, RateOne)
    IN  IF direction = "Income"
        THEN amount_cny - fee_cny
        ELSE -(amount_cny - fee_cny)

compute_net_cny(direction, amount, fee, rate_to_cny) ==
    LET amount_cny == OrElse(amount, 0) * OrElse(rate_to_cny, RateOne)
        fee_cny    == OrElse(fee, 0) * OrElse(rate_to_cny, RateOne)
    IN  IF direction = "Income"
        THEN amount_cny - fee_cny
        ELSE -amount_cny - fee_cny

RECURSIVE SumNet(_)
\* func.sum(Entry.net_cny) over a set of rows (0 for no rows, by coalesce)
SumNet(S) ==
    IF S = {} THEN 0
    ELSE LET e == CHOOSE x \in S : TRUE
         IN  e.net_cny + SumNet(S \ {e})

(***************************************************************************)
(* The state after the tables are created.                                 *)
(***************************************************************************)
\* 2026-03-31, the day the model starts on: its next day opens a new month
StartDay == 365 + DaysBefore[3] + 31

Init ==
    /\ today = StartDay
    /\ users = {}
    /\ accounts = <<>>
    /\ entries = {}
    /\ nextEntryId = 1
    /\ seedRuns = 0
    /\ calc = [direction |-> "Income", amount |-> 0, fee |-> 0, rate_to_cny |-> RateOne, net_cny |-> 0]

AccountIds == 1..Len(accounts)

(***************************************************************************)
(* Handlers.                                                               *)
(***************************************************************************)
\* POST /register
Register(email) ==
    /\ email \notin users
    /\ users' = users \cup {email}
    /\ accounts' = Append(accounts, [user |-> email, name |-> "Default", initial_balance |-> 0])
    /\ UNCHANGED <<today, entries, nextEntryId, seedRuns, calc>>

\* AccountOfForm looking the account up by id alone
AccountOfFormAnyOwner(u, account_id, new_account_name) ==
    IF new_account_name # ""
    THEN Len(accounts) + 1
    ELSE IF account_id # NoId /\ account_id \in AccountIds
         THEN account_id
         ELSE NoAccount

\* the Account row the submitted entry is filed under, looked up before the
\* entry is built: NoAccount for none
AccountOfForm(u, account_id, new_account_name) ==
    IF new_account_name # ""
    THEN Len(accounts) + 1
    ELSE IF account_id # NoId /\ account_id \in AccountIds /\ accounts[account_id].user = u
         THEN account_id
         ELSE NoAccount

\* the direction stored for the form's direction field
DirectionOfForm(direction) ==
    LET given == IF direction = "" THEN "Expense" ELSE direction
    IN  IF given \in {"Income", "Expense"} THEN given ELSE "Expense"

\* the Entry row built from the parsed form
NewEntry(u, dt, direction, amount, fee, rate_to_cny, category, account) ==
    [ id          |-> nextEntryId,
      user        |-> u,
      date        |-> dt,
      direction   |-> DirectionOfForm(direction),
      amount      |-> Abs(amount),
      fee         |-> Abs(fee),
      rate_to_cny |-> rate_to_cny,
      account_id  |-> account,
      category    |-> IF category = "" THEN "Other" ELSE category,
      net_cny     |-> compute_net_cny(DirectionOfForm(direction), amount, fee, rate_to_cny) ]

\* POST /dashboard by the logged-in user u
Submit(u, dt, direction, amount, fee, rate_to_cny, category, account_id, new_account_name) ==
    /\ u \in users
    /\ accounts' = IF new_account_name # ""
                   THEN Append(accounts, [user |-> u, name |-> new_account_name, initial_balance |-> 0])
                   ELSE accounts
    /\ entries' = entries \cup
         {NewEntry(u, dt, direction, amount, fee, rate_to_cny, category,
                   AccountOfForm(u, account_id, new_account_name))}
    /\ nextEntryId' = nextEntryId + 1
    /\ UNCHANGED <<today, users, seedRuns, calc>>

\* DeleteEntry voiding the row (amount, fee and net set to 0) and keeping it
DeleteEntryVoiding(u, entry_id) ==
    /\ u \in users
    /\ entries' = {IF e.id = entry_id /\ e.user = u
                   THEN [e EXCEPT !.amount = 0, !.fee = 0, !.net_cny = 0]
                   ELSE e : e \in entries}
    /\ UNCHANGED <<today, users, accounts, nextEntryId, seedRuns, calc>>

\* POST /entries/<entry_id>/delete by the logged-in user u
DeleteEntry(u, entry_id) ==
    /\ u \in users
    /\ entries' = {e \in entries : ~(e.id = entry_id /\ e.user = u)}
    /\ UNCHANGED <<today, users, accounts, nextEntryId, seedRuns, calc>>

\* POST /accounts by the logged-in user u
CreateAccount(u, name, initial_balance) ==
    /\ u \in users
    /\ accounts' = IF name = ""
                   THEN accounts
                   ELSE Append(accounts, [user |-> u, name |-> name, initial_balance |-> initial_balance])
    /\ UNCHANGED <<today, users, entries, nextEntryId, seedRuns, calc>>

\* seed.py's samples, in the order they are added; the dates are relative to
\* the day of the run
SeedSamples ==
    << [date |-> today - 1, direction |-> "Income",  amount |-> 120000, fee |-> 1000, rate_to_cny |-> 10, category |-> "Sales"],
       [date |-> today - 1, direction |-> "Expense", amount |-> 30000,  fee |-> 0,    rate_to_cny |-> 10, category |-> "Ads"],
       [date |-> today,     direction |-> "Income",  amount |-> 20000,  fee |-> 200,  rate_to_cny |-> 70, category |-> "Invest"],
       [date |-> today,     direction |-> "Expense", amount |-> 30000 + 20000, fee |-> 0, rate_to_cny |-> 10, category |-> "Office"],
       [date |-> today,     direction |-> "Expense", amount |-> 5000,   fee |-> 100,  rate_to_cny |-> 78, category |-> "Fees"] >>

\* the Entry row seed.py adds for its k-th sample, filed under account acc
SeedEntry(k, acc) ==
    LET s == SeedSamples[k]
    IN  [ id          |-> nextEntryId + k - 1,
          user        |-> DemoUser,
          date        |-> s.date,
          direction   |-> s.direction,
          amount      |-> Abs(s.amount),
          fee         |-> Abs(s.fee),
          rate_to_cny |-> s.rate_to_cny,
          account_id  |-> acc,
          category    |-> s.category,
          net_cny     |-> compute_net_cny(s.direction, Abs(s.amount), Abs(s.fee), s.rate_to_cny) ]

\* the accounts table after seed.py's ensure_user
EnsuredAccounts ==
    IF DemoUser \in users
    THEN accounts
    ELSE Append(accounts, [user |-> DemoUser, name |-> "Default", initial_balance |-> SeedInitialBalance])

\* python seed.py: run().  The account the samples are filed under is the
\* first() of an unordered query: any account of the demo user.
SeedRun ==
    /\ users' = users \cup {DemoUser}
    /\ accounts' = EnsuredAccounts
    /\ \E acc \in {a \in 1..Len(EnsuredAccounts) : EnsuredAccounts[a].user = DemoUser} :
         entries' = {e \in entries : e.user # DemoUser}
                      \cup {SeedEntry(k, acc) : k \in 1..Len(SeedSamples)}
    /\ nextEntryId' = nextEntryId + Len(SeedSamples)
    /\ seedRuns' = seedRuns + 1
    /\ UNCHANGED <<today, calc>>

\* midnight: date.today() moves on
NewDay ==
    /\ today' = today + 1
    /\ UNCHANGED <<users, accounts, entries, nextEntryId, seedRuns, calc>>

\* one call of compute_net_cny on its own
Calc(direction, amount, fee, rate_to_cny) ==
    /\ calc' = [direction |-> direction, amount |-> amount, fee |-> fee, rate_to_cny |-> rate_to_cny,
                net_cny |-> compute_net_cny(direction, amount, fee, rate_to_cny)]
    /\ UNCHANGED <<today, users, accounts, entries, nextEntryId, seedRuns>>

(***************************************************************************)
(* The views: what a GET of each page computes for the logged-in user u    *)
(* from the database db (its rows and the day of the request).             *)
(***************************************************************************)
\* the database as the handlers of this step find it
Db == [entries |-> entries, accounts |-> accounts, today |-> today]

\* EntriesOf without the filter on the user
EntriesOfAnyone(db, u) == db.entries

\* Entry.query.filter_by(user_id=current_user.id)
EntriesOf(db, u) == {e \in db.entries : e.user = u}

\* the ids of Account.query.filter_by(user_id=current_user.id)
AccountsOf(db, u) == {a \in 1..Len(db.accounts) : db.accounts[a].user = u}

\* dashboard's sum_range
sum_range(db, u, start_dt, end_dt) ==
    SumNet({e \in db.entries : e.user = u /\ e.date >= start_dt /\ e.date <= end_dt})

today_pl(db, u) == Round2(sum_range(db, u, db.today, db.today))

week_pl(db, u) == Round2(sum_range(db, u, db.today - 6, db.today))

month_pl(db, u) == Round2(sum_range(db, u, FirstOfMonth(db.today), db.today))

start_30(db) == db.today - 29

\* the rows of the query grouped by Entry.date, as the dict daily_map
daily_map(db, u) ==
    LET rows == {e \in db.entries : e.user = u /\ e.date >= start_30(db) /\ e.date <= db.today}
    IN  [d \in {e.date : e \in rows} |-> SumNet({e \in rows : e.date = d})]

\* daily_map.get(dt, 0.0)
DailyGet(m, dt) == IF dt \in DOMAIN m THEN m[dt] ELSE 0

RECURSIVE SeriesLoopSkipping(_, _, _, _)
\* SeriesLoop appending a point only for the days the query returned
SeriesLoopSkipping(m, start, i, running) ==
    IF i >= SeriesLen THEN <<>>
    ELSE IF start + i \notin DOMAIN m THEN SeriesLoopSkipping(m, start, i + 1, running)
    ELSE <<[label |-> DayLabel(start + i),
            value |-> Round2(DailyGet(m, start + i)),
            cum   |-> Round2(running + DailyGet(m, start + i))]>>
         \o SeriesLoopSkipping(m, start, i + 1, running + DailyGet(m, start + i))

RECURSIVE SeriesLoopRounded(_, _, _, _)
\* SeriesLoop adding the rounded value of each day to the running total
SeriesLoopRounded(m, start, i, running) ==
    IF i >= SeriesLen THEN <<>>
    ELSE <<[label |-> DayLabel(start + i),
            value |-> Round2(DailyGet(m, start + i)),
            cum   |-> Round2(running + Round2(DailyGet(m, start + i)))]>>
         \o SeriesLoopRounded(m, start, i + 1, running + Round2(DailyGet(m, start + i)))

RECURSIVE SeriesLoop(_, _, _, _)
\* the loop  for i in range(30)  from its i-th round on, running being the
\* total so far: the points appended, each a label, a value and a cumulative
\* value
SeriesLoop(m, start, i, running) ==
    IF i >= SeriesLen THEN <<>>
    ELSE <<[label |-> DayLabel(start + i),
            value |-> Round2(DailyGet(m, start + i)),
            cum   |-> Round2(running + DailyGet(m, start + i))]>>
         \o SeriesLoop(m, start, i + 1, running + DailyGet(m, start + i))

\* labels_30, values_30 and cum_values as rendered
Series30(db, u) ==
    LET points == SeriesLoop(daily_map(db, u), start_30(db), 0, 0)
    IN  [labels_30  |-> [k \in 1..Len(points) |-> points[k].label],
         values_30  |-> [k \in 1..Len(points) |-> points[k].value],
         cum_values |-> [k \in 1..Len(points) |-> points[k].cum]]

six_months_ago(db) == FirstOfMonth(FirstOfMonth(db.today) - 1) - 150

\* MonthQueryRows with the window's first day left out
MonthQueryRowsExclusive(db, u) == {e \in db.entries : e.user = u /\ e.date > six_months_ago(db)}

\* the rows the monthly query reads
MonthQueryRows(db, u) == {e \in db.entries : e.user = u /\ e.date >= six_months_ago(db)}

RECURSIVE SortLabels(_)
\* ORDER BY ym
SortLabels(S) ==
    IF S = {} THEN <<>>
    ELSE LET least == CHOOSE a \in S : \A b \in S \ {a} : LabelLess(a, b)
         IN  <<least>> \o SortLabels(S \ {least})

\* month_rows: one (ym, sum) per group, rounded as month_values is
month_rows(db, u) ==
    LET rows == MonthQueryRows(db, u)
        yms  == SortLabels({MonthLabel(e.date) : e \in rows})
    IN  [k \in 1..Len(yms) |->
            [label |-> yms[k],
             value |-> Round2(SumNet({e \in rows : MonthLabel(e.date) = yms[k]}))]]

\* pos_sum without the case: every net_cny counts
pos_sum_Net(e) == e.net_cny

\* case((Entry.net_cny > 0, Entry.net_cny), else_=0.0)
pos_sum(e) == IF e.net_cny > 0 THEN e.net_cny ELSE 0

RECURSIVE SumPos(_)
\* func.sum(pos_sum) over a set of rows
SumPos(S) ==
    IF S = {} THEN 0
    ELSE LET e == CHOOSE x \in S : TRUE
         IN  pos_sum(e) + SumPos(S \ {e})

\* cat_labels and cat_values, paired; the groups come in no stated order
cat_rows(db, u) ==
    LET rows == EntriesOf(db, u)
    IN  { [label |-> IF c = "" THEN "Uncategorized" ELSE c,
           value |-> Round2(SumPos({e \in rows : e.category = c}))]
          : c \in {e.category : e \in rows} }

\* account_pl with the join matching on the user alone
account_pl_AnyAccount(db, u, a) == SumNet({e \in db.entries : e.user = u})

\* the pl column of the accounts query for account a
account_pl(db, u, a) == SumNet({e \in db.entries : e.account_id = a /\ e.user = u})

\* acct_info of GET /accounts; ORDER BY name only arranges the rows
acct_info(db, u) ==
    { [id              |-> a,
       name            |-> db.accounts[a].name,
       initial_balance |-> Round2(db.accounts[a].initial_balance),
       pl              |-> Round2(account_pl(db, u, a)),
       current_balance |-> Round2(db.accounts[a].initial_balance + account_pl(db, u, a))]
      : a \in AccountsOf(db, u) }

\* (date, id) ascending
EntryBefore(a, b) == a.date < b.date \/ (a.date = b.date /\ a.id < b.id)

RECURSIVE SortEntries(_)
\* ORDER BY date ASC, id ASC
SortEntries(S) ==
    IF S = {} THEN <<>>
    ELSE LET first == CHOOSE a \in S : \A b \in S \ {a} : EntryBefore(a, b)
         IN  <<first>> \o SortEntries(S \ {first})

\* a line of the export for entry e: amount, fee and net to 2 decimals (the
\* stored amount and fee have no more), the rate to 4
ExportRow(db, e) ==
    [date |-> e.date, direction |-> e.direction, amount |-> e.amount, fee |-> e.fee,
     rate_to_cny |-> e.rate_to_cny,
     account |-> IF e.account_id # NoAccount THEN db.accounts[e.account_id].name ELSE "",
     category |-> e.category, net_cny |-> Round2(e.net_cny)]

\* GET /export without a date range
export_csv(db, u) ==
    LET rows == SortEntries(EntriesOf(db, u))
    IN  [k \in 1..Len(rows) |-> ExportRow(db, rows[k])]

Reverse(s) == [k \in 1..Len(s) |-> s[Len(s) + 1 - k]]

\* GET /entries: the first page of the unfiltered list, and its page_sum
entries_page(db, u) ==
    LET all   == Reverse(SortEntries(EntriesOf(db, u)))
        items == SubSeq(all, 1, IF Len(all) < PerPage THEN Len(all) ELSE PerPage)
    IN  [items |-> items, page_sum |-> Round2(SumNet({items[k] : k \in 1..Len(items)}))]

\* everything GET /dashboard renders for u
dashboard(db, u) ==
    [today_pl |-> today_pl(db, u), week_pl |-> week_pl(db, u), month_pl |-> month_pl(db, u),
     series |-> Series30(db, u), months |-> month_rows(db, u), cats |-> cat_rows(db, u),
     accounts |-> {[id |-> a, name |-> db.accounts[a].name,
                    initial_balance |-> db.accounts[a].initial_balance]
                    : a \in AccountsOf(db, u)}]

\* everything u is shown
Shown(db, u) ==
    [dashboard |-> dashboard(db, u), accounts |-> acct_info(db, u),
     entries |-> entries_page(db, u), export |-> export_csv(db, u)]

(***************************************************************************)
(* Specifications.                                                         *)
(***************************************************************************)
\* the entries stored by dashboard submissions so far
Submitted == nextEntryId - 1 - Len(SeedSamples) * seedRuns

\* the bounds: room for one more submission out of n, for a new account when
\* the form names one, for a seed run, for a day
MaySubmit(n, new_account_name) ==
    /\ Submitted < n
    /\ new_account_name # "" => Len(accounts) < MaxAccounts

MayAddAccount == Len(accounts) < MaxAccounts

MaySeed == seedRuns < MaxSeedRuns

MayPass == today < StartDay + MaxDaysPassed

\* The web application used by two people: accounts, entries filed under
\* them, deletions.
Next ==
    \/ \E email \in Emails : Register(email)
    \/ \E u \in Emails, direction \in {"Income", "bogus"}, amount \in {1},
          account_id \in {NoId} \cup 1..MaxAccounts, new_account_name \in {"", "A"} :
            /\ MaySubmit(MaxSubmits, new_account_name)
            /\ Submit(u, today, direction, amount, 0, 4, "", account_id, new_account_name)
    \/ \E u \in Emails, entry_id \in 1..(nextEntryId - 1) : DeleteEntry(u, entry_id)
    \/ \E u \in Emails, name \in {"", "A"} : MayAddAccount /\ CreateAccount(u, name, 1004)

Spec == Init /\ [][Next]_vars

\* Every operation that writes, the seed script included; the seed's five
\* entries leave room for one submission fewer.
NextAll ==
    \/ \E email \in Emails : Register(email)
    \/ \E u \in Emails, amount \in {-100, 100} :
            /\ MaySubmit(MaxSubmits - 1, "")
            /\ Submit(u, today, "Income", amount, 50, 10, "X", NoId, "")
    \/ \E u \in Emails, entry_id \in 1..(nextEntryId - 1) : DeleteEntry(u, entry_id)
    \/ MayAddAccount /\ CreateAccount(DemoUser, "A", 0)
    \/ MaySeed /\ SeedRun

SpecAll == Init /\ [][NextAll]_vars

\* Two people at work side by side, each with entries and accounts of their
\* own.
NextTwo ==
    \/ \E email \in Emails : Register(email)
    \/ \E u \in Emails, direction \in {"Income", "Expense"}, new_account_name \in {"", "A"} :
            /\ MaySubmit(MaxSubmits, new_account_name)
            /\ Submit(u, today, direction, 1, 0, 6, "X", NoId, new_account_name)
    \/ \E u \in Emails, entry_id \in 1..(nextEntryId - 1) : DeleteEntry(u, entry_id)
    \/ \E u \in Emails : MayAddAccount /\ CreateAccount(u, "B", 1004)

SpecTwo == Init /\ [][NextTwo]_vars

\* compute_net_cny on its own inputs, and on the seed script's.
NextNet ==
    \/ \E direction \in {"Income", "Expense"}, amount \in {0, 1, 5000, 120000},
          fee \in {0, 100, 1000}, rate_to_cny \in {-10, 0, 4, 10, 70, 78} :
            Calc(direction, amount, fee, rate_to_cny)
    \/ MaySeed /\ SeedRun

SpecNet == Init /\ [][NextNet]_vars

\* The daily series as entries come and go and a day passes: entries dated on
\* the first day of the window, today and tomorrow, each worth 0.006 or -0.006.
NextSeries ==
    \/ \E email \in Emails : Register(email)
    \/ \E u \in Emails, dt \in {today - 29, today, today + 1}, direction \in {"Income", "Expense"} :
            /\ MaySubmit(MaxSubmits, "")
            /\ Submit(u, dt, direction, 1, 0, 6, "", NoId, "")
    \/ \E u \in Emails, entry_id \in 1..(nextEntryId - 1) : DeleteEntry(u, entry_id)
    \/ MayPass /\ NewDay

SpecSeries == Init /\ [][NextSeries]_vars

\* The monthly series: entries dated the day before the window opens, on its
\* first day, today and tomorrow, and a day passing into a new month.
NextMonthly ==
    \/ \E email \in Emails : Register(email)
    \/ \E u \in Emails, dt \in {six_months_ago(Db) - 1, six_months_ago(Db), today, today + 1},
          direction \in {"Income", "Expense"} :
            /\ MaySubmit(MaxSubmits, "")
            /\ Submit(u, dt, direction, 1, 0, 6, "", NoId, "")
    \/ \E u \in Emails, entry_id \in 1..(nextEntryId - 1) : DeleteEntry(u, entry_id)
    \/ MayPass /\ NewDay

SpecMonthly == Init /\ [][NextMonthly]_vars

\* The category breakdown: three entries in two categories, worth 100.00,
\* -40.00, 25.00 or 0.004.
NextCat ==
    \/ \E email \in Emails : Register(email)
    \/ \E u \in Emails, category \in {"", "X"},
          form \in {<<"Income", 25000>>, <<"Expense", 10000>>, <<"Income", 6250>>, <<"Income", 1>>} :
            /\ MaySubmit(MaxSubmits + 1, "")
            /\ Submit(u, today, form[1], form[2], 0, 4, category, NoId, "")
    \/ \E u \in Emails, entry_id \in 1..(nextEntryId - 1) : DeleteEntry(u, entry_id)

SpecCat == Init /\ [][NextCat]_vars

(***************************************************************************)
(* Properties.                                                             *)
(***************************************************************************)

\* C1: every stored entry's net_cny equals compute_net_cny applied to the
\* entry's own stored direction, amount, fee and rate.
C1_StoredNetIsNormalized ==
    \A e \in entries :
        e.net_cny = compute_net_cny(e.direction, e.amount, e.fee, e.rate_to_cny)

\* C2: for amount >= 0, fee >= 0 and rate > 0 compute_net_cny returns
\* amount*rate - fee*rate for an income and -amount*rate - fee*rate for an
\* expense, so the fee lowers the result by fee*rate in both directions and
\* zero amount with zero fee gives 0; the five seed entries get 1190.0,
\* -300.0, 1386.0, -500.0 and -397.8, in total 1378.2.
SeedNets == <<1190000, -300000, 1386000, -500000, -397800>>

C2_NetFormula ==
    /\ (calc.amount >= 0 /\ calc.fee >= 0 /\ calc.rate_to_cny > 0) =>
         /\ calc.direction = "Income" =>
              calc.net_cny = calc.amount * calc.rate_to_cny - calc.fee * calc.rate_to_cny
         /\ calc.direction = "Expense" =>
              calc.net_cny = -(calc.amount * calc.rate_to_cny) - calc.fee * calc.rate_to_cny
         /\ calc.net_cny = compute_net_cny(calc.direction, calc.amount, 0, calc.rate_to_cny)
                             - calc.fee * calc.rate_to_cny
         /\ (calc.amount = 0 /\ calc.fee = 0) => calc.net_cny = 0
    /\ seedRuns > 0 =>
         /\ Cardinality(EntriesOf(Db, DemoUser)) = Len(SeedNets)
         /\ \A k \in 1..Len(SeedNets) :
              \E e \in EntriesOf(Db, DemoUser) :
                  e.id = nextEntryId - Len(SeedNets) + k - 1 /\ e.net_cny = SeedNets[k]
         /\ SumNet(EntriesOf(Db, DemoUser)) = 1378200

C2_Witness ==
    /\ calc.direction = "Expense" /\ calc.amount = 5000 /\ calc.fee = 100
    /\ calc.rate_to_cny = 78
    /\ seedRuns > 0 /\ Cardinality(entries) = Len(SeedNets)

\* C3 as stated: the accounts view reports, for every account of the user,
\* a current balance equal to initialBalance plus the sum of net_cny over
\* exactly the entries that reference the account; an account with no
\* referencing entries appears with its initialBalance.
C3_BalanceIsExactSum ==
    \A u \in users : \A a \in AccountsOf(Db, u) :
        \E row \in acct_info(Db, u) :
            /\ row.id = a
            /\ row.current_balance =
                 accounts[a].initial_balance + SumNet({e \in entries : e.account_id = a})

\* C3 as amended: the reported current balance is that sum rounded to 2
\* decimals; the view has one row per account of the user and no other, and
\* an account with no referencing entries appears with its initialBalance
\* rounded to 2 decimals.
C3_BalanceIsRoundedSum ==
    \A u \in users :
        /\ {row.id : row \in acct_info(Db, u)} = AccountsOf(Db, u)
        /\ Cardinality(acct_info(Db, u)) = Cardinality(AccountsOf(Db, u))
        /\ \A row \in acct_info(Db, u) :
             LET refs == {e \in entries : e.account_id = row.id}
             IN  /\ row.current_balance =
                      Round2(accounts[row.id].initial_balance + SumNet(refs))
                 /\ refs = {} => row.current_balance = Round2(accounts[row.id].initial_balance)

C3_Witness ==
    \E u \in users : \E a, b \in AccountsOf(Db, u) :
        /\ \E id \in 1..(nextEntryId - 1) : \A e \in entries : e.id # id
        /\ SumNet({e \in entries : e.account_id = a}) # 0
        /\ {e \in entries : e.account_id = b} = {}
        /\ accounts[b].initial_balance # 0

\* the net_cny of u's entries dated d, summed
DaySum(u, d) == SumNet({e \in entries : e.user = u /\ e.date = d})

\* C4 as stated: the daily series has exactly 30 points, one per calendar day
\* from today-29 to today, oldest first; the point at index i is the sum of
\* the user's net_cny over the entries dated start+i, a day with no entries
\* being an explicit 0 at its own index.
C4_PointsAreDaySums ==
    \A u \in Emails :
        LET s == Series30(Db, u)
        IN  /\ Len(s.labels_30) = 30 /\ Len(s.values_30) = 30 /\ Len(s.cum_values) = 30
            /\ \A k \in 1..30 :
                 /\ s.labels_30[k] = DayLabel(today - 30 + k)
                 /\ s.values_30[k] = DaySum(u, today - 30 + k)

\* C4 as amended: the same, the point at index i being that sum rounded to 2
\* decimals.
C4_PointsAreRoundedDaySums ==
    \A u \in Emails :
        LET s == Series30(Db, u)
        IN  /\ Len(s.labels_30) = 30 /\ Len(s.values_30) = 30 /\ Len(s.cum_values) = 30
            /\ \A k \in 1..30 :
                 /\ s.labels_30[k] = DayLabel(today - 30 + k)
                 /\ s.values_30[k] = Round2(DaySum(u, today - 30 + k))
                 /\ (\A e \in entries : e.user = u => e.date # today - 30 + k)
                      => s.values_30[k] = 0

\* entries on the first and the last day of the window, nothing in between
C4_Witness ==
    \E u \in users :
        LET s == Series30(Db, u)
        IN  /\ s.values_30[1] # 0 /\ s.values_30[30] # 0
            /\ \A k \in 2..29 : s.values_30[k] = 0

\* C5 as stated: the emitted cumulative series is the running prefix sum of
\* the emitted daily series: cum[0] = daily[0] and cum[i] = cum[i-1] + daily[i].
C5_CumIsPrefixSumOfEmitted ==
    \A u \in Emails :
        LET s == Series30(Db, u)
        IN  /\ s.cum_values[1] = s.values_30[1]
            /\ \A k \in 2..30 : s.cum_values[k] = s.cum_values[k - 1] + s.values_30[k]

\* C5 as amended: cum[i] is the running sum of the unrounded day sums up to
\* day i, rounded to 2 decimals when emitted; cum[0] = daily[0], and cum[i]
\* differs from cum[i-1] + daily[i] by at most 0.01.
C5_CumIsRoundedRunningSum ==
    \A u \in Emails :
        LET s == Series30(Db, u)
        IN  /\ s.cum_values[1] = s.values_30[1]
            /\ \A k \in 1..30 :
                 s.cum_values[k] =
                    Round2(SumNet({e \in entries : /\ e.user = u
                                                  /\ e.date >= today - 29
                                                  /\ e.date <= today - 30 + k}))
            /\ \A k \in 2..30 :
                 Abs(s.cum_values[k] - (s.cum_values[k - 1] + s.values_30[k])) <= 10

\* two days of 0.006 each: both are emitted as 0.01, and so is their total
C5_Witness ==
    \E u \in users :
        LET s == Series30(Db, u)
        IN  /\ s.values_30[1] = 10 /\ s.values_30[30] = 10
            /\ s.cum_values[1] = 10 /\ s.cum_values[30] = 10

\* the user's entries the monthly series covers
InWindow(u) == {e \in entries : e.user = u /\ e.date >= FirstOfMonth(FirstOfMonth(today) - 1) - 150}

\* C6 as stated: the monthly series has one (label, value) pair for exactly
\* the months with an entry of the user dated on or after the window start,
\* in ascending order, each value the sum of net_cny for that month; a month
\* with no entry in the window is absent.
C6_MonthsAreSums ==
    \A u \in Emails :
        LET rows == month_rows(Db, u)
        IN  /\ {rows[k].label : k \in 1..Len(rows)} = {MonthLabel(e.date) : e \in InWindow(u)}
            /\ \A k \in 1..(Len(rows) - 1) : LabelLess(rows[k].label, rows[k + 1].label)
            /\ \A k \in 1..Len(rows) :
                 rows[k].value = SumNet({e \in InWindow(u) : MonthLabel(e.date) = rows[k].label})

\* C6 as amended: the same, each value being the sum of net_cny over the
\* month's entries dated on or after the window start, rounded to 2 decimals.
C6_MonthsAreRoundedSums ==
    \A u \in Emails :
        LET rows == month_rows(Db, u)
        IN  /\ {rows[k].label : k \in 1..Len(rows)} = {MonthLabel(e.date) : e \in InWindow(u)}
            /\ \A k \in 1..(Len(rows) - 1) : LabelLess(rows[k].label, rows[k + 1].label)
            /\ \A k \in 1..Len(rows) :
                 rows[k].value =
                    Round2(SumNet({e \in InWindow(u) : MonthLabel(e.date) = rows[k].label}))

\* an entry on the first day of the window and one this month: two rows, the
\* months between them absent
C6_Witness ==
    \E u \in users :
        LET rows == month_rows(Db, u)
        IN  /\ Len(rows) = 2
            /\ rows[1].label = <<2025, 9>> /\ rows[2].label = <<2026, 3>>
            /\ \E e \in entries : e.user = u /\ e.date = six_months_ago(Db)
            /\ rows[1].value # 0

\* C7 as stated: for every category with an entry of the user the breakdown
\* reports the sum of the strictly positive net_cny of the category, a
\* negative net_cny adding 0 (+100, -40 and +25 report 125, not 85); a
\* category of expenses only is reported with 0.
C7_CategoriesArePositiveSums ==
    \A u \in Emails :
        LET mine == {e \in entries : e.user = u}
        IN  /\ {r.label : r \in cat_rows(Db, u)} = {e.category : e \in mine}
            /\ \A r \in cat_rows(Db, u) :
                 LET pos == {e \in mine : e.category = r.label /\ e.net_cny > 0}
                 IN  /\ r.value = SumNet(pos)
                     /\ pos = {} => r.value = 0

\* C7 as amended: the same, the reported value being that sum rounded to 2
\* decimals.
C7_CategoriesAreRoundedPositiveSums ==
    \A u \in Emails :
        LET mine == {e \in entries : e.user = u}
        IN  /\ {r.label : r \in cat_rows(Db, u)} = {e.category : e \in mine}
            /\ Cardinality(cat_rows(Db, u)) = Cardinality({e.category : e \in mine})
            /\ \A r \in cat_rows(Db, u) :
                 LET pos == {e \in mine : e.category = r.label /\ e.net_cny > 0}
                 IN  /\ r.value = Round2(SumNet(pos))
                     /\ pos = {} => r.value = 0

\* +100, -40 and +25 in category X, reported as 125
C7_Witness ==
    \E u \in users :
        /\ {e.net_cny : e \in {x \in entries : x.user = u /\ x.category = "X"}}
             = {100000, -40000, 25000}
        /\ [label |-> "X", value |-> 125000] \in cat_rows(Db, u)

\* C8: what a user is shown is a function of that user's own entries and
\* accounts: it is what the same pages show with every row of the other users
\* taken out of the database, so no entry or account another user creates,
\* deletes or changes alters it.
OwnRows(db, u) ==
    [entries  |-> {e \in db.entries : e.user = u},
     accounts |-> [a \in 1..Len(db.accounts) |->
                     IF db.accounts[a].user = u THEN db.accounts[a]
                     ELSE [user |-> "", name |-> "", initial_balance |-> 0]],
     today    |-> db.today]

C8_ShownFromOwnRows == \A u \in Emails : Shown(Db, u) = Shown(OwnRows(Db, u), u)

\* both users have entries, the newest one of the other user, and accounts
C8_Witness ==
    \E u, v \in users :
        /\ u # v
        /\ \E e \in entries : e.user = v /\ e.id = nextEntryId - 1
        /\ \E e \in entries : e.user = u /\ e.account_id # NoAccount
        /\ \E a \in AccountIds : accounts[a].user = v

\* C9: an entry that exists before and after a step has the same date,
\* direction, amount, fee, rate, account reference and net_cny (and owner and
\* category): entries are created once and only deleted.
C9_EntriesNeverEdited ==
    [][\A e \in entries : \A f \in entries' :
          f.id = e.id =>
             /\ f.date = e.date /\ f.direction = e.direction /\ f.amount = e.amount
             /\ f.fee = e.fee /\ f.rate_to_cny = e.rate_to_cny
             /\ f.account_id = e.account_id /\ f.net_cny = e.net_cny
             /\ f.user = e.user /\ f.category = e.category]_vars

\* after a seed run: an entry made before it is still there, beside the seed's
\* five; an entry was deleted and an account added
C9_Witness ==
    /\ seedRuns > 0
    /\ \E e, f \in entries : e.user = OtherUser /\ f.user = DemoUser /\ e.id < f.id
    /\ Cardinality({e \in entries : e.user = DemoUser}) = Len(SeedSamples)
    /\ Len(accounts) > Cardinality(users)

\* C10: each entry's account reference is absent or names an account of the
\* entry's own user; an entry submitted with the id of another user's account
\* is stored with no account, and deleting an entry id of another user
\* deletes nothing.
AccountRefsOwned ==
    \A e \in entries :
        \/ e.account_id = NoAccount
        \/ e.account_id \in AccountIds /\ accounts[e.account_id].user = e.user

C10_AccountRefsStayOwned ==
    [][/\ AccountRefsOwned'
       /\ \A u \in Emails, a \in AccountIds, direction \in {"Income", "bogus"} :
            (accounts[a].user # u /\ Submit(u, today, direction, 1, 0, 4, "", a, ""))
               => \E e \in entries' :
                     /\ e.id = nextEntryId /\ entries' = entries \cup {e}
                     /\ e.user = u /\ e.account_id = NoAccount
       /\ \A u \in Emails, entry_id \in 1..(nextEntryId - 1) :
            ((\A e \in entries : e.id = entry_id => e.user # u) /\ DeleteEntry(u, entry_id))
               => entries' = entries]_vars

\* two users with accounts, one more account than registration made: an
\* entry of one user is filed under an account of that user, an entry of the
\* other under none
C10_Witness ==
    /\ Len(accounts) > Cardinality(users)
    /\ \E e, f \in entries :
          /\ e.user # f.user
          /\ e.account_id # NoAccount /\ accounts[e.account_id].user = e.user
          /\ f.account_id = NoAccount

====
